---- MODULE Spec2Model ----
(***************************************************************************)
(* ScholarNet_ai: the research orchestrator (plan executor), the MCP bus   *)
(* it talks through and the environment it calls (planning model, worker   *)
(* agents, session transport).                                             *)
(*                                                                         *)
(* A call of handle_research_request is a coroutine.  It is modelled as a  *)
(* frame run[r] that is resumed by one action per suspension point of the  *)
(* code; every action runs the code from that point up to the next         *)
(* external call (or to the return), as the event loop does.               *)
(***************************************************************************)
EXTENDS Integers, Sequences, FiniteSets, TLC

VARIABLES
    scenario,         \* the environment the program is placed in (fixed)
    agents,           \* MCPServer.agents, in insertion order: <<[id, type]>>
    active_sessions,  \* MCPServer.active_sessions (its keys)
    active_tasks,     \* ResearchOrchestrator.active_tasks, in insertion order
    run,              \* the frames of the handle_research_request calls
    log,              \* per call: its trace (tasks begun, what it handed to
                      \* the bus, what came back, what each delegate returned)
    call,             \* the frame of the MCPServer call that can suspend
                      \* (send_message, broadcast_message,
                      \* broadcast_to_session, stop)
    returned,         \* what the last call that cannot suspend returned
    vector_store      \* the VectorStore object (self)

vars == <<scenario, agents, active_sessions, active_tasks, run, log,
          call, returned, vector_store>>

----------------------------------------------------------------------------
(* Bounds of the model *)

MaxQueries == 3      \* sub-queries of one web_search task
MaxResp    == 11     \* items one search response carries at most
MaxTasks   == 2      \* tasks of a plan the planning model returns, and
                     \* the priorities it gives them: 1..MaxTasks

(* Program constants *)

MAX_SEARCH_RESULTS == 10     \* Config.MAX_SEARCH_RESULTS
DefaultPriority    == 999    \* x.get('priority', 999)

WEB_SEARCH      == "web_search"
SUMMARIZE       == "summarize"
GENERATE_REPORT == "generate_report"
ANALYZE_DATA    == "analyze_data"

SEARCH        == "search_agent"
SUMMARIZER    == "summarizer_agent"
REPORT_WRITER == "report_writer_agent"
ORCHESTRATOR  == "research_orchestrator"

Absent == "<absent>"     \* a key the dict does not hold

----------------------------------------------------------------------------
(* Python values *)

\* math.ceil(a / b) for positive integers
Ceil(a, b) == (a + b - 1) \div b

\* lst[:n]
Take(lst, n) == SubSeq(lst, 1, IF n < Len(lst) THEN n ELSE Len(lst))

\* {}  and  d[k] = v  and  d.get(k, default)
EmptyDict == [k \in {} |-> <<>>]
Put(d, k, v) == [x \in (DOMAIN d) \cup {k} |-> IF x = k THEN v ELSE d[x]]
Get(d, k, default) == IF k \in DOMAIN d THEN d[k] ELSE default

\* A payload is a list of items; a text is the list of one text item and the
\* empty text is the empty list (both are falsy in Python).
Item(src, q, k) == [src |-> src, q |-> q, k |-> k]
Text(src)       == << Item(src, "", 0) >>
Items(q, n)     == [j \in 1..n |-> Item("web", q, j)]

----------------------------------------------------------------------------
(* Plans *)

\* One task dict of a plan.  priority is <<>> when the dict has no
\* 'priority' key and <<p>> otherwise; input_source is Absent when the dict
\* has no 'input_source' key.
Task(type, prio, src, queries) ==
    [task_type |-> type, priority |-> prio, input_source |-> src,
     search_queries |-> queries]

\* What json.loads gave: "array" is a list of task dicts, "values" a list of
\* values that are not dicts, "object" a non-empty dict, "string" a non-empty
\* str, "scalar" a number, a bool or null.
Plan(shape, tasks) == [shape |-> shape, tasks |-> tasks]

_create_default_plan(query) ==
    Plan("array",
         << Task(WEB_SEARCH, <<1>>, Absent, <<query>>),
            Task(SUMMARIZE, <<2>>, "search_results", <<>>),
            Task(GENERATE_REPORT, <<3>>, "summary", <<>>) >>)

\* The planning model's answer: it raises, or returns text that json.loads
\* rejects ("text"), or text that json.loads accepts ("json", with the value).
Raises      == [kind |-> "raise", value |-> Plan("none", <<>>)]
Unparseable == [kind |-> "text",  value |-> Plan("none", <<>>)]
Json(value) == [kind |-> "json",  value |-> value]

\* (variant: no plan, rather than the default plan, when json.loads fails)
_create_research_plan_no_fallback(response, query) ==
    IF response.kind = "raise" THEN _create_default_plan(query)
    ELSE IF response.kind = "text" \/ response.value.shape = "scalar"
         THEN Plan("array", <<>>)
         ELSE response.value

\* _create_research_plan from the answer on: json.loads failing gives the
\* default plan; len(plan) raising (a scalar has no len) falls to the outer
\* except, which gives the default plan too; any other value is returned.
_create_research_plan(response, query) ==
    IF response.kind = "raise" THEN _create_default_plan(query)
    ELSE LET plan == IF response.kind = "text"
                     THEN _create_default_plan(query)
                     ELSE response.value
         IN  IF plan.shape = "scalar"
             THEN _create_default_plan(query)
             ELSE plan

\* x.get('priority', 999)
Priority(task) ==
    IF task.priority = <<>> THEN DefaultPriority ELSE task.priority[1]

\* sorted(plan, key=...) as the list of the tasks' positions in the plan.
\* Python's sort is stable: a task goes behind every task already placed
\* whose key is not greater than its own.
RECURSIVE SortedOrder(_, _)
SortedOrder(tasks, n) ==
    IF n = 0 THEN <<>>
    ELSE LET prev == SortedOrder(tasks, n - 1)
             pos  == Cardinality({i \in 1..Len(prev) :
                        Priority(tasks[prev[i]]) <= Priority(tasks[n])})
         IN  SubSeq(prev, 1, pos) \o <<n>> \o SubSeq(prev, pos + 1, Len(prev))

\* (variant: the loop runs over plan, not over sorted_tasks)
plan_order(tasks) == [i \in 1..Len(tasks) |-> i]

sorted_by_priority(tasks) == SortedOrder(tasks, Len(tasks))

----------------------------------------------------------------------------
(* The bus as the orchestrator reads it *)

\* An agent object, as hasattr sees it
Instance(handle_message, shutdown) ==
    [handle_message |-> handle_message, shutdown |-> shutdown]

\* (variant: a new record is not active)
AgentRecordInactive(agent_id, agent_type, agent_instance) ==
    [id |-> agent_id, type |-> agent_type, instance |-> agent_instance,
     status |-> "inactive"]

\* the value register_agent stores at self.agents[agent_id]
AgentRecord(agent_id, agent_type, agent_instance) ==
    [id |-> agent_id, type |-> agent_type, instance |-> agent_instance,
     status |-> "active"]

\* (variant: the first agent listed, whatever its type)
first_agent_id(agent_type) == IF agents = <<>> THEN Absent ELSE agents[1].id

\* _get_agent_id_by_type: the first agent listed whose type matches
_get_agent_id_by_type(agent_type) ==
    LET hits == {i \in 1..Len(agents) : agents[i].type = agent_type}
    IN  IF hits = {} THEN Absent
        ELSE agents[CHOOSE i \in hits : \A j \in hits : i <= j].id

----------------------------------------------------------------------------
(* active_tasks: a dict, kept as the list of its values in insertion order *)

HasTask(tasks, task_id) == \E i \in 1..Len(tasks) : tasks[i].task_id = task_id
TaskIndex(tasks, task_id) == CHOOSE i \in 1..Len(tasks) : tasks[i].task_id = task_id

\* (variant: the run is marked completed before its plan is executed)
NewTaskRunCompleted(task_id, query, session_id, plan) ==
    [task_id |-> task_id, query |-> query, session_id |-> session_id,
     plan |-> plan, status |-> "completed", results |-> EmptyDict]

\* the value stored at self.active_tasks[task_id] = {...}
NewTaskRun(task_id, query, session_id, plan) ==
    [task_id |-> task_id, query |-> query, session_id |-> session_id,
     plan |-> plan, status |-> "in_progress", results |-> EmptyDict]

\* self.active_tasks[list(self.active_tasks.keys())[-1]]['query'];
\* Absent stands for the IndexError on an empty dict
LastQuery(tasks) == IF tasks = <<>> THEN Absent ELSE tasks[Len(tasks)].query

----------------------------------------------------------------------------
(* Frames and what a call hands to the bus *)

NoResponse == [kind |-> "none", value |-> Plan("none", <<>>)]
NoReturn   == [status |-> "none"]

IdleFrame(query, session_id) ==
    [pc |-> "idle", query |-> query, session_id |-> session_id,
     task_id |-> Absent, response |-> NoResponse, plan |-> Plan("none", <<>>),
     order |-> <<>>, idx |-> 0, results |-> EmptyDict,
     agent_id |-> Absent, qi |-> 0, all_results |-> <<>>, ret |-> NoReturn]

\* kind "task": the loop of _execute_research_plan begins a task;
\* kind "notify": broadcast_to_session(to, ...) reached sio.emit;
\* kind "search", "summarize", "generate_report": send_message(to, {method:
\* kind, params: ...}); kind "reply": send_message returned (text: the kind
\* of reply, data: the result it carries); kind "return": a delegate
\* returned data for the slot named by text.
\* task is the position in the plan of the task being run (0: none), text
\* the message of a notification and the query of a search, acc the length
\* of all_results when a search is sent.
Event(kind, to, task, text, max_results, acc, data, context) ==
    [kind |-> kind, to |-> to, task |-> task, text |-> text,
     max_results |-> max_results, acc |-> acc, data |-> data,
     context |-> context]

\* The mutable state a call works on
State == [tasks |-> active_tasks, run |-> run, log |-> log]

CurTask(f) == f.plan.tasks[f.order[f.idx]]

\* _notify_progress: the session sio.emit is called for, Absent when the
\* task id is not in active_tasks or the bus does not know the session
NotifyTarget(tasks, task_id) ==
    IF HasTask(tasks, task_id)
    THEN LET sid == tasks[TaskIndex(tasks, task_id)].session_id
         IN  IF sid \in active_sessions THEN sid ELSE Absent
    ELSE Absent

----------------------------------------------------------------------------
(* _delegate_search_task: the quota *)

\* (variant: the quotient rounded down)
results_per_query_floor(num_queries) == MAX_SEARCH_RESULTS \div num_queries

\* results_per_query = math.ceil(Config.MAX_SEARCH_RESULTS / num_queries)
results_per_query(num_queries) == Ceil(MAX_SEARCH_RESULTS, num_queries)

\* (variant: > for >=)
quota_met_strict(all_results) == Len(all_results) > MAX_SEARCH_RESULTS

\* if len(all_results) >= Config.MAX_SEARCH_RESULTS: break
quota_met(all_results) == Len(all_results) >= MAX_SEARCH_RESULTS

\* (variants: the trim left out; the trim one short)
final_results_untrimmed(all_results) == all_results
final_results_short(all_results) == Take(all_results, MAX_SEARCH_RESULTS - 1)

\* final_results = all_results[:Config.MAX_SEARCH_RESULTS]
final_results(all_results) == Take(all_results, MAX_SEARCH_RESULTS)

----------------------------------------------------------------------------
(* handle_research_request and what it calls, from one suspension point to  *)
(* the next.  Each operator takes the state S a call works on and gives the *)
(* state in which the call r is suspended again or has returned.            *)

RECURSIVE execute_loop(_, _)

\* The element of a set of one.  A call takes the state it works on as
\* The({on(S) : S \in {S0}}), so that the state is computed once, however
\* often the code of the call reads it.
The(set) == CHOOSE x \in set : TRUE

\* (variant: the exception leaves handle_research_request)
handle_request_raise(S, r) == [S EXCEPT !.run[r].pc = "raised"]

\* except Exception as e: return {'task_id': 'unknown', 'status': 'error', ...}
handle_request_except(S, r) ==
    [S EXCEPT !.run[r].pc = "done",
              !.run[r].ret = [task_id |-> "unknown", status |-> "error",
                              error |-> "exception"]]

\* _execute_research_plan has returned results: mark the run completed and
\* return.  active_tasks[task_id] raises KeyError when the entry is gone.
handle_request_return(S0, r) ==
    LET on(S) ==
            LET f == S.run[r]
            IN  IF HasTask(S.tasks, f.task_id)
                THEN LET i == TaskIndex(S.tasks, f.task_id)
                     IN  [S EXCEPT !.tasks[i].status = "completed",
                                   !.tasks[i].results = f.results,
                                   !.run[r].pc = "done",
                                   !.run[r].ret = [task_id |-> f.task_id,
                                                   status |-> "completed",
                                                   results |-> f.results]]
                ELSE handle_request_except(S, r)
    IN  The({on(S) : S \in {S0}})

\* results[slot] = <value the delegate returned>, then the next task
store_result(S0, r, slot, value) ==
    LET on(S) ==
            LET f == S.run[r]
            IN  execute_loop([S EXCEPT
                    !.log[r] = Append(@, Event("return", Absent, f.order[f.idx], slot,
                                               0, 0, value, Absent)),
                    !.run[r].results = Put(@, slot, value),
                    !.run[r].idx = @ + 1], r)
    IN  The({on(S) : S \in {S0}})

\* the for loop of _delegate_search_task, at its head
search_loop(S0, r) ==
    LET on(S) ==
            LET f       == S.run[r]
                queries == CurTask(f).search_queries
            IN  IF f.qi > Len(queries) \/ quota_met(f.all_results)
                THEN store_result(S, r, "search_results", final_results(f.all_results))
                ELSE [S EXCEPT !.log[r] = Append(@,
                                  Event("search", f.agent_id, f.order[f.idx],
                                        queries[f.qi], results_per_query(Len(queries)),
                                        Len(f.all_results), <<>>, Absent)),
                               !.run[r].pc = "search_wait"]
    IN  The({on(S) : S \in {S0}})

_delegate_search_task(S0, r) ==
    LET on(S) ==
            LET search_agent_id == _get_agent_id_by_type(SEARCH)
            IN  IF search_agent_id = Absent \/ CurTask(S.run[r]).search_queries = <<>>
                THEN store_result(S, r, "search_results", <<>>)
                ELSE search_loop([S EXCEPT !.run[r].agent_id = search_agent_id,
                                           !.run[r].qi = 1,
                                           !.run[r].all_results = <<>>], r)
    IN  The({on(S) : S \in {S0}})

\* _delegate_summarize_task and _delegate_report_task differ in the agent
\* type, the method and the slot only.  The context is read from the entry
\* active_tasks holds last.
delegate_text_task(S0, r, agent_type, method, default_source, slot) ==
    LET on(S) ==
            LET f          == S.run[r]
                task       == CurTask(f)
                source     == IF task.input_source = Absent THEN default_source
                              ELSE task.input_source
                input_data == Get(f.results, source, <<>>)
                agent_id   == _get_agent_id_by_type(agent_type)
            IN  IF agent_id = Absent \/ input_data = <<>> \/ LastQuery(S.tasks) = Absent
                THEN store_result(S, r, slot, <<>>)
                ELSE [S EXCEPT !.log[r] = Append(@,
                                  Event(method, agent_id, f.order[f.idx], "", 0, 0,
                                        input_data, LastQuery(S.tasks))),
                               !.run[r].agent_id = agent_id,
                               !.run[r].pc = method \o "_wait"]
    IN  The({on(S) : S \in {S0}})

\* (variant: a task of a type the chain does not know is awaited on)
dispatch_task_waits(S, r) ==
    LET task_type == CurTask(S.run[r]).task_type
    IN  CASE task_type = WEB_SEARCH -> _delegate_search_task(S, r)
          [] task_type = SUMMARIZE ->
               delegate_text_task(S, r, SUMMARIZER, "summarize",
                                  "search_results", "summary")
          [] task_type = GENERATE_REPORT ->
               delegate_text_task(S, r, REPORT_WRITER, "generate_report",
                                  "summary", "report")
          [] OTHER -> [S EXCEPT !.run[r].pc = "task_wait"]

\* the if / elif chain of _execute_research_plan
dispatch_task(S, r) ==
    LET task_type == CurTask(S.run[r]).task_type
    IN  CASE task_type = WEB_SEARCH -> _delegate_search_task(S, r)
          [] task_type = SUMMARIZE ->
               delegate_text_task(S, r, SUMMARIZER, "summarize",
                                  "search_results", "summary")
          [] task_type = GENERATE_REPORT ->
               delegate_text_task(S, r, REPORT_WRITER, "generate_report",
                                  "summary", "report")
          [] OTHER -> execute_loop([S EXCEPT !.run[r].idx = @ + 1], r)

\* the for loop of _execute_research_plan, at its head
execute_loop(S0, r) ==
    LET on(S) ==
            LET f == S.run[r]
            IN  IF f.idx > Len(f.order) THEN handle_request_return(S, r)
                ELSE LET sid   == NotifyTarget(S.tasks, f.task_id)
                         begun == Event("task", Absent, f.order[f.idx],
                                        CurTask(f).task_type, 0, 0, <<>>, Absent)
                         T     == [S EXCEPT !.log[r] = Append(@, begun)]
                     IN  IF sid # Absent
                         THEN [T EXCEPT !.log[r] = Append(@,
                                           Event("notify", sid, f.order[f.idx],
                                                 CurTask(f).task_type, 0, 0, <<>>,
                                                 Absent)),
                                        !.run[r].pc = "notify_wait"]
                         ELSE dispatch_task(T, r)
    IN  The({on(S) : S \in {S0}})

\* _execute_research_plan from its first line: sorted() raises on a plan
\* whose elements are not dicts, and the except returns {'error': str(e)}
_execute_research_plan(S0, r) ==
    LET on(S) ==
            LET plan == S.run[r].plan
            IN  IF plan.shape = "array"
                THEN execute_loop([S EXCEPT
                         !.run[r].order = sorted_by_priority(plan.tasks),
                         !.run[r].idx = 1], r)
                ELSE handle_request_return(
                         [S EXCEPT !.run[r].results =
                                       Put(EmptyDict, "error", Text("error"))], r)
    IN  The({on(S) : S \in {S0}})

----------------------------------------------------------------------------
(* The environment *)

\* What an agent's handler gave send_message: an {'error': ...} envelope
\* (also when the handler raised or the agent is gone), a {'result': ...}
\* envelope of n items (for a text, n > 0 is a non-empty text), or a value
\* that is no dict ("malformed": response.get raises in the delegate).
Reply(kind, n) == [kind |-> kind, n |-> n]

SubQueries(n) == [i \in 1..n |-> "sq" \o ToString(i)]

SeqsUpTo(S, n) == UNION {[1..k -> S] : k \in 0..n}

Prios == {<<>>} \cup {<<p>> : p \in 1..MaxTasks}

TaskTypes == {WEB_SEARCH, SUMMARIZE, GENERATE_REPORT, ANALYZE_DATA}

PlanTasks ==
    {Task(type, prio, Absent,
          IF type = WEB_SEARCH THEN SubQueries(1) ELSE <<>>) :
        type \in TaskTypes, prio \in Prios}

\* The scenarios: "quota" is one REST request whose plan is a single
\* web_search task, with every kind of search response; "plans" is one
\* socket request with every kind of planner answer; "roles" is one socket
\* request on a bus where any of the agents may be missing; "concurrent" is
\* a socket request and a REST request in flight together.
Scenarios == {"quota", "plans", "roles", "concurrent"}

\* The tasks of the plans of "returns": one of each type, the web_search
\* task with two sub-queries
ReturnsTasks ==
    {Task(type, <<>>, Absent,
          IF type = WEB_SEARCH THEN SubQueries(2) ELSE <<>>) :
        type \in TaskTypes}

PlannerMenu(sc) ==
    CASE sc = "quota" ->
           {Json(Plan("array", << Task(WEB_SEARCH, <<>>, Absent, SubQueries(n)) >>)) :
               n \in 0..MaxQueries}
      [] sc = "plans" ->
           {Raises, Unparseable} \cup
           {Json(Plan(shape, <<>>)) : shape \in {"scalar", "string", "object", "values"}} \cup
           {Json(Plan("array", tasks)) : tasks \in SeqsUpTo(PlanTasks, MaxTasks)}
      [] sc = "roles" ->
           {Unparseable,
            Json(Plan("array", << Task(WEB_SEARCH, <<>>, Absent, SubQueries(2)),
                                  Task(SUMMARIZE, <<>>, Absent, <<>>) >>))}
      [] sc = "returns" ->
           {Raises, Unparseable, Json(Plan("object", <<>>))} \cup
           {Json(Plan("array", tasks)) : tasks \in SeqsUpTo(ReturnsTasks, MaxTasks)}
      [] OTHER -> {Unparseable}

ReplyMenu(sc) ==
    CASE sc = "quota" ->
           {Reply("error", 0), Reply("malformed", 0)} \cup
           {Reply("result", n) : n \in 0..MaxResp}
      [] sc = "roles" ->
           {Reply("error", 0), Reply("result", Ceil(MAX_SEARCH_RESULTS, 2))}
      [] sc = "returns" ->
           {Reply("error", 0), Reply("malformed", 0), Reply("result", 1)}
      [] OTHER -> {Reply("error", 0), Reply("result", 1)}

\* startup_event registers the four agents in this order
StartupAgents ==
    << AgentRecord("a1", ORCHESTRATOR, Instance(FALSE, TRUE)),
       AgentRecord("a2", SEARCH, Instance(TRUE, TRUE)),
       AgentRecord("a3", SUMMARIZER, Instance(TRUE, TRUE)),
       AgentRecord("a4", REPORT_WRITER, Instance(TRUE, TRUE)) >>

\* The calls of a scenario: research_request passes the socket's sid, which
\* connect added to the bus; research_endpoint passes a fresh uuid, which
\* the bus never hears of.
Requests(sc) ==
    CASE sc = "quota" -> [r \in {"r1"} |-> IdleFrame("qA", "rest1")]
      [] sc \in {"plans", "roles", "returns"} ->
           [r \in {"r1"} |-> IdleFrame("qA", "sid1")]
      [] OTHER -> [r \in {"r1", "r2"} |->
                      IF r = "r1" THEN IdleFrame("qA", "sid1")
                      ELSE IdleFrame("qB", "rest2")]

Sessions(sc) == IF sc = "quota" THEN {} ELSE {"sid1"}

\* The agents on the bus: those startup_event registered, less (in "roles")
\* those whose registration failed or that were unregistered since
Registries(sc) ==
    IF sc = "roles"
    THEN {SelectSeq(StartupAgents, LAMBDA a : a.type \in types) :
             types \in SUBSET {ORCHESTRATOR, SEARCH, SUMMARIZER, REPORT_WRITER}}
    ELSE {StartupAgents}

----------------------------------------------------------------------------
(* MCPServer: the registry, the router and the sessions *)

HasAgent(agent_id) == \E i \in 1..Len(agents) : agents[i].id = agent_id
AgentIndex(agent_id) == CHOOSE i \in 1..Len(agents) : agents[i].id = agent_id

\* list_agents: one entry per record, in the order of self.agents
list_agents ==
    [i \in 1..Len(agents) |->
        [id |-> agents[i].id, type |-> agents[i].type,
         status |-> agents[i].status]]

\* A message or what send_message returns: {'result': ...} or {'error': ...}
Envelope(kind, text) == [kind |-> kind, text |-> text]
NoEnvelope == Envelope("none", "")
NotFound   == Envelope("error", "Agent not found")
NoHandler  == Envelope("error", "Agent does not support message handling")

\* What handle_message does: it returns a result, returns an error
\* envelope, or raises (send_message then returns {'error': str(e)})
HandlerMenu == {"result", "error", "raise"}

\* (variant: the exception of a handler is passed on as it is)
handler_response_unwrapped(outcome) ==
    IF outcome = "result" THEN Envelope("result", "handled")
    ELSE IF outcome = "error" THEN Envelope("error", "handler error")
    ELSE Envelope("raise", "handler raised")

handler_response(outcome) ==
    IF outcome = "result" THEN Envelope("result", "handled")
    ELSE IF outcome = "error" THEN Envelope("error", "handler error")
    ELSE Envelope("error", "handler raised")

\* responses[agent_id] = response, on a dict kept in insertion order
PutResponse(responses, agent_id, response) ==
    IF \E i \in 1..Len(responses) : responses[i].id = agent_id
    THEN [i \in 1..Len(responses) |->
             IF responses[i].id = agent_id
             THEN [id |-> agent_id, response |-> response]
             ELSE responses[i]]
    ELSE Append(responses, [id |-> agent_id, response |-> response])

\* The frame of a call that can suspend.  op is the method, pc where it is
\* suspended ("handle_message", "emit", "shutdown") or how it ended
\* ("done", "raised"); result names what it returned: "response" (the
\* envelope in response), "responses" (the dict in responses), "error" (the
\* dict {'error': str(e)}), "True", "False" or "None".
\* size and pos are the dict iterator of broadcast_message and stop: the
\* size of self.agents when the loop began and the entries it has passed.
\* changed records that agents were added or removed under the iterator,
\* delivered the handlers, shutdowns and sessions invoked, in order.
IdleCall ==
    [op |-> "none", pc |-> "idle", agent_id |-> Absent, exclude_agents |-> {},
     session_id |-> Absent, size |-> 0, pos |-> 0, changed |-> FALSE,
     response |-> NoEnvelope, responses |-> <<>>, delivered |-> <<>>,
     result |-> "none"]

NewCall(op) == [IdleCall EXCEPT !.op = op]

\* The last call that cannot suspend: the method, for a method of the
\* vector store its arguments, and what it returned: "True", "False" or
\* "None", or in listing the listing of list_agents or the results of search
Args(doc_id, content, metadata, top_k) ==
    [doc_id |-> doc_id, content |-> content, metadata |-> metadata,
     top_k |-> top_k]
NoArgs == Args(Absent, Absent, Absent, 0)
Returned(op, args, ret, listing) ==
    [op |-> op, args |-> args, ret |-> ret, listing |-> listing]
NothingReturned == Returned("none", NoArgs, "None", <<>>)

\* (variant: no look-up before self.agents[agent_id]; the KeyError is
\* caught and returned as {'error': str(e)})
send_message_unchecked(c, agent_id) ==
    IF ~HasAgent(agent_id)
    THEN [c EXCEPT !.agent_id = agent_id,
                   !.response = Envelope("error", "KeyError")]
    ELSE IF ~agents[AgentIndex(agent_id)].instance.handle_message
         THEN [c EXCEPT !.agent_id = agent_id, !.response = NoHandler]
         ELSE [c EXCEPT !.agent_id = agent_id, !.pc = "handle_message",
                        !.delivered = Append(@, agent_id)]

\* send_message up to the call of the handler
send_message(c, agent_id) ==
    IF ~HasAgent(agent_id)
    THEN [c EXCEPT !.agent_id = agent_id, !.response = NotFound]
    ELSE IF ~agents[AgentIndex(agent_id)].instance.handle_message
         THEN [c EXCEPT !.agent_id = agent_id, !.response = NoHandler]
         ELSE [c EXCEPT !.agent_id = agent_id, !.pc = "handle_message",
                        !.delivered = Append(@, agent_id)]

\* (variant: the exclusion list is not looked at)
is_excluded_never(c, agent_id) == FALSE

\* if agent_id not in exclude_agents
is_excluded(c, agent_id) == agent_id \in c.exclude_agents

\* the for loop of broadcast_message, from the entry after pos on, up to
\* the next handler that is awaited or to the return
RECURSIVE broadcast_loop(_)
broadcast_loop(c) ==
    IF c.pos >= Len(agents)
    THEN [c EXCEPT !.pc = "done", !.result = "responses"]
    ELSE LET agent_id == agents[c.pos + 1].id
             next     == [c EXCEPT !.pos = @ + 1, !.pc = "running"]
         IN  IF is_excluded(c, agent_id) THEN broadcast_loop(next)
             ELSE LET sent == send_message(next, agent_id)
                  IN  IF sent.pc = "handle_message" THEN sent
                      ELSE broadcast_loop([sent EXCEPT !.responses =
                               PutResponse(@, agent_id, sent.response)])

\* the for loop of stop, from the entry after pos on, up to the next
\* shutdown that is awaited or to the end of the loop ("clear")
RECURSIVE stop_loop(_)

\* (variant: shutdown is awaited without asking hasattr)
stop_loop_no_hasattr(c) ==
    IF c.pos >= Len(agents) THEN [c EXCEPT !.pc = "clear"]
    ELSE [c EXCEPT !.pos = @ + 1, !.agent_id = agents[c.pos + 1].id,
                   !.pc = "shutdown",
                   !.delivered = Append(@, agents[c.pos + 1].id)]

stop_loop(c) ==
    IF c.pos >= Len(agents) THEN [c EXCEPT !.pc = "clear"]
    ELSE LET agent == agents[c.pos + 1]
             next  == [c EXCEPT !.pos = @ + 1, !.agent_id = agent.id]
         IN  IF agent.instance.shutdown
             THEN [next EXCEPT !.pc = "shutdown",
                               !.delivered = Append(@, agent.id)]
             ELSE stop_loop(next)

\* What the iterator of self.agents.items() gives when the loop comes back
\* to it: the positions it may go on from, "raise" for RuntimeError
\* (dictionary changed size during iteration).  Once entries were added and
\* removed under it without changing the size, the iterator may raise
\* RuntimeError or fail to iterate over all entries.
IterNext(c) ==
    IF Len(agents) # c.size THEN {[kind |-> "raise", pos |-> 0]}
    ELSE IF ~c.changed THEN {[kind |-> "go", pos |-> c.pos]}
    ELSE {[kind |-> "raise", pos |-> 0]}
         \cup {[kind |-> "go", pos |-> k] : k \in c.pos..Len(agents)}

----------------------------------------------------------------------------
(* VectorStore *)

MaxTopK  == 2        \* top_k of a search: 0..MaxTopK
MaxScore == 1        \* a cosine similarity, as a rank 0..MaxScore

\* __init__: documents and embeddings are dicts keyed by content hash, kept
\* in insertion order; vectorizer is the TfidfVectorizer, which remembers
\* the corpus of its last successful fit.
VectorStore ==
    [documents |-> <<>>, embeddings |-> <<>>,
     vectorizer |-> [fitted |-> FALSE, corpus |-> <<>>],
     _is_fitted |-> FALSE]

\* hashlib.md5(content.encode()).hexdigest()
content_hash(content) == "md5:" \o content

\* the value stored at self.documents[content_hash]
Document(doc_id, content, metadata) ==
    [hash |-> content_hash(content), id |-> doc_id, content |-> content,
     metadata |-> metadata]

HasHash(d, hash) == \E i \in 1..Len(d) : d[i].hash = hash

\* del d[hash]
DelHash(d, hash) == SelectSeq(d, LAMBDA x : x.hash # hash)

\* A text made of stop words only leaves no term; fit_transform raises
\* ValueError (empty vocabulary) when no text of the corpus has a term
StopWordsOnly == "the"
fit_fails(documents) == \A i \in 1..Len(documents) : documents[i].content = StopWordsOnly

\* _update_embeddings: nothing on an empty store; a fit that raises leaves
\* embeddings and vectorizer as they were and resets _is_fitted
_update_embeddings(vs) ==
    IF vs.documents = <<>> THEN vs
    ELSE IF fit_fails(vs.documents) THEN [vs EXCEPT !._is_fitted = FALSE]
    ELSE LET corpus == [i \in 1..Len(vs.documents) |-> vs.documents[i].hash]
         IN  [vs EXCEPT !.vectorizer = [fitted |-> TRUE, corpus |-> corpus],
                        !._is_fitted = TRUE,
                        !.embeddings = [i \in 1..Len(corpus) |->
                                           [hash |-> corpus[i], fit |-> corpus]]]

\* (variant: no look-up of the content hash before storing)
add_document_no_dedup(vs, doc_id, content, metadata) ==
    _update_embeddings([vs EXCEPT !.documents =
        Append(@, Document(doc_id, content, metadata))])

add_document(vs, doc_id, content, metadata) ==
    IF HasHash(vs.documents, content_hash(content)) THEN vs
    ELSE _update_embeddings([vs EXCEPT !.documents =
             Append(@, Document(doc_id, content, metadata))])

\* (variant: the loop goes on to the last document with the id)
doc_hash_to_remove_last(vs, doc_id) ==
    LET hits == {i \in 1..Len(vs.documents) : vs.documents[i].id = doc_id}
    IN  IF hits = {} THEN Absent
        ELSE vs.documents[CHOOSE i \in hits : \A j \in hits : i >= j].hash

\* the loop of remove_document: the hash of the first document with the id,
\* Absent for None
doc_hash_to_remove(vs, doc_id) ==
    LET hits == {i \in 1..Len(vs.documents) : vs.documents[i].id = doc_id}
    IN  IF hits = {} THEN Absent
        ELSE vs.documents[CHOOSE i \in hits : \A j \in hits : i <= j].hash

\* (variant: the embeddings are rebuilt also when nothing was found)
remove_document_refits(vs, doc_id) ==
    LET hash == doc_hash_to_remove(vs, doc_id)
    IN  IF hash = Absent THEN [vs EXCEPT !.embeddings = <<>>]
        ELSE _update_embeddings([vs EXCEPT !.documents = DelHash(@, hash),
                                           !.embeddings = DelHash(@, hash)])

\* remove_document: the store it leaves (it returns whether a hash was found)
remove_document(vs, doc_id) ==
    LET hash == doc_hash_to_remove(vs, doc_id)
    IN  IF hash = Absent THEN vs
        ELSE _update_embeddings([vs EXCEPT !.documents = DelHash(@, hash),
                                           !.embeddings = DelHash(@, hash)])

\* clear
clear(vs) == [vs EXCEPT !.documents = <<>>, !.embeddings = <<>>,
                        !._is_fitted = FALSE]

\* similarities.sort(key=lambda x: x[1], reverse=True): stable, the greater
\* similarity first
RECURSIVE SortedBySimilarity(_, _)
SortedBySimilarity(similarities, n) ==
    IF n = 0 THEN <<>>
    ELSE LET prev == SortedBySimilarity(similarities, n - 1)
             pos  == Cardinality({i \in 1..Len(prev) :
                        prev[i].similarity >= similarities[n].similarity})
         IN  SubSeq(prev, 1, pos) \o <<similarities[n]>>
                 \o SubSeq(prev, pos + 1, Len(prev))

\* (variant: the list is cut before it is sorted)
top_results_unsorted(similarities, top_k) == Take(similarities, top_k)

\* similarities sorted, then similarities[:top_k]
top_results(similarities, top_k) ==
    Take(SortedBySimilarity(similarities, Len(similarities)), top_k)

\* search, on the store as the lazy refit left it: [] when there is no
\* document or when transform raises (the vectorizer was never fitted);
\* cosine(hash) is the similarity of the query to the vector of a document.
search(vs, top_k, cosine) ==
    IF vs.documents = <<>> \/ ~vs.vectorizer.fitted THEN <<>>
    ELSE LET scored == SelectSeq(vs.documents,
                           LAMBDA d : HasHash(vs.embeddings, d.hash))
         IN  top_results([i \in 1..Len(scored) |->
                            [id |-> scored[i].id,
                             similarity |-> cosine[scored[i].hash],
                             content |-> scored[i].content,
                             metadata |-> scored[i].metadata]], top_k)

\* if not self._is_fitted: self._update_embeddings()
search_refit(vs) ==
    IF vs.documents # <<>> /\ ~vs._is_fitted THEN _update_embeddings(vs) ELSE vs

----------------------------------------------------------------------------
(* Specification *)

\* The program after startup_event, with the calls of scenario sc to come
Started(sc) ==
    /\ scenario = sc
    /\ agents \in Registries(sc)
    /\ active_sessions = Sessions(sc)
    /\ active_tasks = <<>>
    /\ run = Requests(sc)
    /\ log = [r \in DOMAIN Requests(sc) |-> <<>>]
    /\ call = IdleCall
    /\ returned = NothingReturned
    /\ vector_store = VectorStore

Init == \E sc \in Scenarios : Started(sc)

Apply(S0) ==
    \E S \in {S0} :
        /\ active_tasks' = S.tasks
        /\ run' = S.run
        /\ log' = S.log
        /\ UNCHANGED <<scenario, agents, active_sessions, call, returned,
                       vector_store>>

\* handle_research_request up to the call of the planning model.  The id is
\* fresh, so _notify_progress finds no entry for it and emits nothing.
HandleResearchRequest(r) ==
    /\ run[r].pc = "idle"
    /\ LET sid == NotifyTarget(active_tasks, r)
           S   == [State EXCEPT !.run[r].task_id = r,
                                !.run[r].pc = "planning"]
       IN  Apply(IF sid = Absent THEN S
                 ELSE [S EXCEPT !.log[r] = Append(@,
                          Event("notify", sid, 0, "Creating a custom research plan...",
                                0, 0, <<>>, Absent))])

\* generate_content_async returns or raises: the plan is made, the run is
\* entered in active_tasks and _execute_research_plan starts
PlanningReturns(r) ==
    /\ run[r].pc = "planning"
    /\ \E response \in PlannerMenu(scenario) :
          LET f    == run[r]
              plan == _create_research_plan(response, f.query)
          IN  Apply(_execute_research_plan(
                  [State EXCEPT
                      !.tasks = Append(@, NewTaskRun(f.task_id, f.query,
                                                     f.session_id, plan)),
                      !.run[r].response = response,
                      !.run[r].plan = plan,
                      !.run[r].results = EmptyDict], r))

\* (variant: a notification that was not delivered ends the call)
notified_or_abort(S, r, delivered) ==
    IF delivered THEN dispatch_task(S, r) ELSE handle_request_except(S, r)

\* _notify_progress has returned: broadcast_to_session gave True, or False
\* when sio.emit raised, and neither is looked at; the task is dispatched
notified(S, r, delivered) == dispatch_task(S, r)

\* sio.emit returns or raises (broadcast_to_session swallows it)
NotifyReturns(r) ==
    /\ run[r].pc = "notify_wait"
    /\ \E delivered \in BOOLEAN : Apply(notified(State, r, delivered))

\* (variant: the results of a sub-query are put in front of the list)
extend_results_in_front(all_results, reply, query) ==
    IF reply.kind = "result" /\ reply.n > 0
    THEN Items(query, reply.n) \o all_results
    ELSE all_results

\* if response and response.get('result'): all_results.extend(...)
extend_results(all_results, reply, query) ==
    IF reply.kind = "result" /\ reply.n > 0
    THEN all_results \o Items(query, reply.n)
    ELSE all_results

\* the state with the reply entered in the trace of call r
Replied(r, reply, data) ==
    [State EXCEPT !.log[r] = Append(@,
        Event("reply", run[r].agent_id, run[r].order[run[r].idx], reply.kind,
              0, 0, data, Absent))]

\* send_message returns to _delegate_search_task; a reply that is no dict
\* raises, and the except of the delegate returns []
SearchReturns(r) ==
    /\ run[r].pc = "search_wait"
    /\ \E reply \in ReplyMenu(scenario) :
          LET f     == run[r]
              query == CurTask(f).search_queries[f.qi]
              S     == Replied(r, reply, extend_results(<<>>, reply, query))
          IN  IF reply.kind = "malformed"
              THEN Apply(store_result(S, r, "search_results", <<>>))
              ELSE Apply(search_loop(
                      [S EXCEPT
                          !.run[r].all_results = extend_results(@, reply, query),
                          !.run[r].qi = @ + 1], r))

\* return response.get('result', "") if response else ""
text_result(reply, slot) ==
    IF reply.kind = "result" /\ reply.n > 0 THEN Text(slot) ELSE <<>>

\* send_message returns to _delegate_summarize_task
SummarizeReturns(r) ==
    /\ run[r].pc = "summarize_wait"
    /\ \E reply \in ReplyMenu(scenario) :
          Apply(store_result(Replied(r, reply, text_result(reply, "summary")),
                             r, "summary", text_result(reply, "summary")))

\* send_message returns to _delegate_report_task
ReportReturns(r) ==
    /\ run[r].pc = "generate_report_wait"
    /\ \E reply \in ReplyMenu(scenario) :
          Apply(store_result(Replied(r, reply, text_result(reply, "report")),
                             r, "report", text_result(reply, "report")))

\* ResearchOrchestrator.shutdown
Shutdown ==
    /\ active_tasks' = <<>>
    /\ UNCHANGED <<scenario, agents, active_sessions, run, log, call,
                   returned, vector_store>>

Next ==
    \/ \E r \in DOMAIN run : HandleResearchRequest(r)
    \/ \E r \in DOMAIN run : PlanningReturns(r)
    \/ \E r \in DOMAIN run : NotifyReturns(r)
    \/ \E r \in DOMAIN run : SearchReturns(r)
    \/ \E r \in DOMAIN run : SummarizeReturns(r)
    \/ \E r \in DOMAIN run : ReportReturns(r)
    \/ Shutdown

Spec == Init /\ [][Next]_vars

\* The calls of handle_research_request there can be
RunIds == {"r1", "r2"}

\* the call a run is suspended in returns (or raises)
Returns(r) ==
    /\ r \in DOMAIN run
    /\ \/ PlanningReturns(r)
       \/ NotifyReturns(r)
       \/ SearchReturns(r)
       \/ SummarizeReturns(r)
       \/ ReportReturns(r)

\* The program under the condition that every awaited call of the planning
\* model, of the bus and of the socket server comes back: a suspended run
\* is resumed by the event loop once the awaited call is over.  The scenario
\* is "returns": a socket request, the planner answering with any plan of
\* tasks of the four types, the agents with an error, a result or a value
\* that is no dict, and the orchestrator shut down at any time.
FairInit == Started("returns")

FairSpec == FairInit /\ [][Next]_vars /\ \A r \in RunIds : WF_vars(Returns(r))

----------------------------------------------------------------------------
(* The bus on its own: the coroutines of the program calling MCPServer.    *)
(* One call that can suspend is followed in call; the calls that cannot    *)
(* suspend are made by the other coroutines at any time, also while that   *)
(* one is suspended.                                                       *)

\* The agents that register: the id is the agent's own uuid
BusAgents ==
    { AgentRecord("b1", SEARCH, Instance(TRUE, TRUE)),
      AgentRecord("b1", REPORT_WRITER, Instance(TRUE, TRUE)),
      AgentRecord("b2", SUMMARIZER, Instance(TRUE, FALSE)),
      AgentRecord("b3", ORCHESTRATOR, Instance(FALSE, TRUE)) }

BusIds == {a.id : a \in BusAgents}

BusSessions == {"s1", "s2"}

ExcludeMenu == {{}, {"b1", "b3"}}

\* The scenarios of the bus, each with the methods its coroutines call:
\* "registry" is agents coming and going while messages are sent to them,
\* "sessions" is sockets connecting and disconnecting while notifications
\* are sent, "routing" is a broadcast or the stop of the server with agents
\* coming and going under it (one socket is connected).
BusScenarios == {"registry", "sessions", "routing"}

BusCalls(sc) ==
    CASE sc = "registry" ->
           {"register_agent", "unregister_agent", "list_agents", "send_message"}
      [] sc = "sessions" ->
           {"add_session", "remove_session", "broadcast_to_session"}
      [] OTHER ->
           {"register_agent", "unregister_agent", "broadcast_message", "stop"}

Called(op) == op \in BusCalls(scenario)

\* who registers: in "registry" an id is also registered a second time,
\* with another type
RegisterMenu(sc) ==
    IF sc = "registry" THEN BusAgents
    ELSE {a \in BusAgents : a.type # REPORT_WRITER}

BusInit ==
    /\ scenario \in BusScenarios
    /\ agents = <<>>
    /\ active_sessions = IF scenario = "routing" THEN {"s1"} ELSE {}
    /\ active_tasks = <<>>
    /\ run = <<>>
    /\ log = <<>>
    /\ call = IdleCall
    /\ returned = NothingReturned
    /\ vector_store = VectorStore

Suspended == call.pc \in {"handle_message", "emit", "shutdown"}

\* the call in flight is inside the loop over self.agents.items()
Iterating == Suspended /\ call.op \in {"broadcast_message", "stop"}

\* register_agent: self.agents[agent_id] = {...} replaces the value of a key
\* the dict holds and appends a new key
RegisterAgent(a) ==
    /\ Called("register_agent")
    /\ agents' = IF HasAgent(a.id)
                 THEN [agents EXCEPT ![AgentIndex(a.id)] = a]
                 ELSE Append(agents, a)
    /\ call' = IF Iterating /\ ~HasAgent(a.id)
               THEN [call EXCEPT !.changed = TRUE] ELSE call
    /\ returned' = Returned("register_agent", NoArgs, "True", <<>>)
    /\ UNCHANGED <<scenario, active_sessions, active_tasks, run, log,
                   vector_store>>

UnregisterAgent(agent_id) ==
    /\ Called("unregister_agent")
    /\ agents' = SelectSeq(agents, LAMBDA a : a.id # agent_id)
    /\ call' = IF Iterating /\ HasAgent(agent_id)
               THEN [call EXCEPT !.changed = TRUE] ELSE call
    /\ returned' = Returned("unregister_agent", NoArgs,
                            IF HasAgent(agent_id) THEN "True" ELSE "False",
                            <<>>)
    /\ UNCHANGED <<scenario, active_sessions, active_tasks, run, log,
                   vector_store>>

ListAgents ==
    /\ Called("list_agents")
    /\ returned' = Returned("list_agents", NoArgs, "None", list_agents)
    /\ UNCHANGED <<scenario, agents, active_sessions, active_tasks, run, log,
                   call, vector_store>>

AddSession(session_id) ==
    /\ Called("add_session")
    /\ active_sessions' = active_sessions \cup {session_id}
    /\ returned' = Returned("add_session", NoArgs, "None", <<>>)
    /\ UNCHANGED <<scenario, agents, active_tasks, run, log, call,
                   vector_store>>

RemoveSession(session_id) ==
    /\ Called("remove_session")
    /\ active_sessions' = active_sessions \ {session_id}
    /\ returned' = Returned("remove_session", NoArgs, "None", <<>>)
    /\ UNCHANGED <<scenario, agents, active_tasks, run, log, call,
                   vector_store>>

\* send_message called on its own: it returns at once, or awaits the handler
SendMessage(agent_id) ==
    /\ Called("send_message")
    /\ ~Suspended
    /\ LET c == send_message(NewCall("send_message"), agent_id)
       IN  call' = IF c.pc = "handle_message" THEN c
                   ELSE [c EXCEPT !.pc = "done", !.result = "response"]
    /\ UNCHANGED <<scenario, agents, active_sessions, active_tasks, run, log,
                   returned, vector_store>>

\* broadcast_message up to the first handler it awaits
BroadcastMessage(exclude_agents) ==
    /\ Called("broadcast_message")
    /\ ~Suspended
    /\ call' = broadcast_loop([NewCall("broadcast_message") EXCEPT
                                  !.exclude_agents = exclude_agents,
                                  !.size = Len(agents)])
    /\ UNCHANGED <<scenario, agents, active_sessions, active_tasks, run, log,
                   returned, vector_store>>

\* handle_message returns or raises: send_message returns; in
\* broadcast_message the response is stored and the loop goes on.  The
\* RuntimeError of the iterator is caught by the except of
\* broadcast_message, which returns {'error': str(e)}.
HandlerReturns ==
    /\ call.pc = "handle_message"
    /\ \E outcome \in HandlerMenu :
          LET response == handler_response(outcome)
          IN  IF call.op = "send_message"
              THEN call' = [call EXCEPT !.response = response, !.pc = "done",
                                        !.result = "response"]
              ELSE LET c == [call EXCEPT
                                !.response = response,
                                !.responses = PutResponse(@, call.agent_id,
                                                          response)]
                   IN  \E next \in IterNext(c) :
                          call' = IF next.kind = "raise"
                                  THEN [c EXCEPT !.pc = "done",
                                                 !.result = "error"]
                                  ELSE broadcast_loop(
                                           [c EXCEPT !.pos = next.pos])
    /\ UNCHANGED <<scenario, agents, active_sessions, active_tasks, run, log,
                   returned, vector_store>>

\* (variant: sio.emit is called whether the session is known or not)
broadcast_to_session_unchecked(c, session_id) ==
    [c EXCEPT !.session_id = session_id, !.pc = "emit",
              !.delivered = <<session_id>>]

\* broadcast_to_session up to sio.emit(event_name, message, to=session_id)
broadcast_to_session(c, session_id) ==
    IF session_id \in active_sessions
    THEN [c EXCEPT !.session_id = session_id, !.pc = "emit",
                   !.delivered = <<session_id>>]
    ELSE [c EXCEPT !.session_id = session_id, !.pc = "done",
                   !.result = "False"]

BroadcastToSession(session_id) ==
    /\ Called("broadcast_to_session")
    /\ ~Suspended
    /\ call' = broadcast_to_session(NewCall("broadcast_to_session"), session_id)
    /\ UNCHANGED <<scenario, agents, active_sessions, active_tasks, run, log,
                   returned, vector_store>>

\* sio.emit returns (True) or raises (the except returns False)
EmitReturns ==
    /\ call.pc = "emit"
    /\ \E emitted \in BOOLEAN :
          call' = [call EXCEPT !.pc = "done",
                               !.response = IF emitted THEN NoEnvelope
                                            ELSE Envelope("error", "emit raised"),
                               !.result = IF emitted THEN "True" ELSE "False"]
    /\ UNCHANGED <<scenario, agents, active_sessions, active_tasks, run, log,
                   returned, vector_store>>

\* stop after its loop: self.agents.clear(), self.active_sessions.clear();
\* when the loop is left by a shutdown being awaited or by the RuntimeError
\* of the iterator, neither is reached
StopGoesOn(c) ==
    /\ call' = IF c.pc = "clear"
               THEN [c EXCEPT !.pc = "done", !.result = "None"] ELSE c
    /\ agents' = IF c.pc = "clear" THEN <<>> ELSE agents
    /\ active_sessions' = IF c.pc = "clear" THEN {} ELSE active_sessions
    /\ UNCHANGED <<scenario, active_tasks, run, log, returned, vector_store>>

\* stop up to the first shutdown it awaits
Stop ==
    /\ Called("stop")
    /\ ~Suspended
    /\ StopGoesOn(stop_loop([NewCall("stop") EXCEPT !.size = Len(agents)]))

\* shutdown returns or raises (the except in the loop logs it); responses
\* keeps how each shutdown ended.  The RuntimeError of the iterator is
\* raised outside that try and leaves stop.
ShutdownReturns ==
    /\ call.pc = "shutdown"
    /\ \E outcome \in {"result", "raise"} :
          LET c == [call EXCEPT !.responses =
                       PutResponse(@, call.agent_id, handler_response(outcome))]
          IN  \E next \in IterNext(c) :
                 IF next.kind = "raise"
                 THEN StopGoesOn([c EXCEPT !.pc = "raised"])
                 ELSE StopGoesOn(stop_loop([c EXCEPT !.pos = next.pos]))

BusNext ==
    \/ \E a \in RegisterMenu(scenario) : RegisterAgent(a)
    \/ \E agent_id \in BusIds : UnregisterAgent(agent_id)
    \/ ListAgents
    \/ \E session_id \in BusSessions : AddSession(session_id)
    \/ \E session_id \in BusSessions : RemoveSession(session_id)
    \/ \E agent_id \in BusIds : SendMessage(agent_id)
    \/ \E exclude_agents \in ExcludeMenu : BroadcastMessage(exclude_agents)
    \/ HandlerReturns
    \/ \E session_id \in BusSessions : BroadcastToSession(session_id)
    \/ EmitReturns
    \/ Stop
    \/ ShutdownReturns

BusSpec == BusInit /\ [][BusNext]_vars

----------------------------------------------------------------------------
(* The vector store on its own: the summarizer adding the documents of a   *)
(* request, searching them and clearing the store                          *)

DocIds   == {"a", "b"}
Contents == {"apple", "pear", StopWordsOnly}
Metadata == {"m1", "m2"}

StoreInit ==
    /\ scenario = "store"
    /\ agents = <<>>
    /\ active_sessions = {}
    /\ active_tasks = <<>>
    /\ run = <<>>
    /\ log = <<>>
    /\ call = IdleCall
    /\ returned = NothingReturned
    /\ vector_store = VectorStore

AddDocument(doc_id, content, metadata) ==
    /\ vector_store' = add_document(vector_store, doc_id, content, metadata)
    /\ returned' = Returned("add_document",
                            Args(doc_id, content, metadata, 0), "None", <<>>)
    /\ UNCHANGED <<scenario, agents, active_sessions, active_tasks, run, log,
                   call>>

RemoveDocument(doc_id) ==
    /\ vector_store' = remove_document(vector_store, doc_id)
    /\ returned' = Returned("remove_document",
                            Args(doc_id, Absent, Absent, 0),
                            IF doc_hash_to_remove(vector_store, doc_id) = Absent
                            THEN "False" ELSE "True", <<>>)
    /\ UNCHANGED <<scenario, agents, active_sessions, active_tasks, run, log,
                   call>>

Clear ==
    /\ vector_store' = clear(vector_store)
    /\ returned' = Returned("clear", NoArgs, "None", <<>>)
    /\ UNCHANGED <<scenario, agents, active_sessions, active_tasks, run, log,
                   call>>

\* the similarities cosine_similarity can give for the stored documents
Cosines(vs) ==
    [{vs.documents[i].hash : i \in 1..Len(vs.documents)} -> 0..MaxScore]

Search(top_k, cosine) ==
    /\ vector_store' = search_refit(vector_store)
    /\ returned' = Returned("search", Args(Absent, Absent, Absent, top_k),
                            "None",
                            search(search_refit(vector_store), top_k, cosine))
    /\ UNCHANGED <<scenario, agents, active_sessions, active_tasks, run, log,
                   call>>

StoreNext ==
    \/ \E doc_id \in DocIds, content \in Contents, metadata \in Metadata :
          AddDocument(doc_id, content, metadata)
    \/ \E doc_id \in DocIds : RemoveDocument(doc_id)
    \/ Clear
    \/ \E top_k \in 0..MaxTopK, cosine \in Cosines(vector_store) :
          Search(top_k, cosine)

StoreSpec == StoreInit /\ [][StoreNext]_vars

----------------------------------------------------------------------------
(* Reading the trace *)

IsReturn(e, slot) == e.kind = "return" /\ e.text = slot
SearchSends(r, t) == SelectSeq(log[r], LAMBDA e : e.kind = "search" /\ e.task = t)
RepliesTo(r, t)   == SelectSeq(log[r], LAMBDA e : e.kind = "reply" /\ e.task = t)
TasksBegun(r)     == SelectSeq(log[r], LAMBDA e : e.kind = "task")
QueriesOf(r, t)   == run[r].plan.tasks[t].search_queries

----------------------------------------------------------------------------
(* Claims *)

\* C1: whatever the number of sub-queries and whatever each search response
\* carries (more than requested, nothing, an error), the list
\* _delegate_search_task returns has at most MAX_SEARCH_RESULTS items.
C1_QuotaNeverExceeded ==
    \A r \in DOMAIN log : \A i \in 1..Len(log[r]) :
        IsReturn(log[r][i], "search_results")
            => Len(log[r][i].data) <= MAX_SEARCH_RESULTS

\* a search task returned a full list after more than the quota had been
\* accumulated
C1_Witness ==
    \E r \in DOMAIN log : \E i \in 1..Len(log[r]) :
        /\ IsReturn(log[r][i], "search_results")
        /\ Len(log[r][i].data) = MAX_SEARCH_RESULTS
        /\ Len(run[r].all_results) > MAX_SEARCH_RESULTS
        /\ \E j \in 1..i : log[r][j].kind = "reply" /\ log[r][j].text = "error"

\* C2: when a retrieval task has N >= 1 sub-queries and every sub-query
\* that is asked supplies at least ceil(M/N) results, the list
\* _delegate_search_task returns has exactly M items.
C2_ExactlyQuotaWhenSupplied ==
    \A r \in DOMAIN log : \A i \in 1..Len(log[r]) :
        LET e       == log[r][i]
            N       == Len(QueriesOf(r, e.task))
            replies == RepliesTo(r, e.task)
        IN  ( /\ IsReturn(e, "search_results")
              /\ N >= 1
              /\ SearchSends(r, e.task) # <<>>
              /\ \A j \in 1..Len(replies) :
                    /\ replies[j].text = "result"
                    /\ Len(replies[j].data) * N >= MAX_SEARCH_RESULTS )
            => Len(e.data) = MAX_SEARCH_RESULTS

\* three sub-queries supplied 4 results each: 12 were accumulated and 10
\* returned
C2_Witness ==
    \E r \in DOMAIN log : \E i \in 1..Len(log[r]) :
        LET e       == log[r][i]
            replies == RepliesTo(r, e.task)
        IN  /\ IsReturn(e, "search_results")
            /\ Len(QueriesOf(r, e.task)) = 3
            /\ Len(replies) = 3
            /\ \A j \in 1..3 : replies[j].text = "result" /\ Len(replies[j].data) = 4
            /\ Len(e.data) = MAX_SEARCH_RESULTS

\* C3: the search requests of one retrieval task are the plan's queries in
\* plan order, a prefix of them, and none is sent when the accumulated
\* results have reached M.
C3_PrefixAndShortCircuit ==
    \A r \in DOMAIN log : \A i \in 1..Len(log[r]) :
        LET e == log[r][i]
            k == Cardinality({j \in 1..i : log[r][j].kind = "search"
                                           /\ log[r][j].task = e.task})
        IN  e.kind = "search"
            => /\ e.acc < MAX_SEARCH_RESULTS
               /\ k <= Len(QueriesOf(r, e.task))
               /\ e.text = QueriesOf(r, e.task)[k]

\* a retrieval task returned with sub-queries left unasked
C3_Witness ==
    \E r \in DOMAIN log : \E i \in 1..Len(log[r]) :
        LET e == log[r][i]
        IN  /\ IsReturn(e, "search_results")
            /\ Len(SearchSends(r, e.task)) >= 2
            /\ Len(SearchSends(r, e.task)) < Len(QueriesOf(r, e.task))
            /\ log[r][i - 1].kind = "reply" /\ log[r][i - 1].text = "result"

\* C4: the tasks of a plan are begun in non-decreasing order of priority
\* (999 for a task without one), and tasks of equal priority in plan order.
C4_PriorityOrderStable ==
    \A r \in DOMAIN log :
        LET ts   == TasksBegun(r)
            P(i) == Priority(run[r].plan.tasks[ts[i].task])
        IN  \A i, j \in 1..Len(ts) :
                i < j => \/ P(i) < P(j)
                         \/ P(i) = P(j) /\ ts[i].task < ts[j].task

\* a plan whose second task came first
C4_Witness ==
    \E r \in DOMAIN log :
        LET ts == TasksBegun(r)
        IN  Len(ts) >= 2 /\ ts[1].task > ts[2].task

\* the fixed three-task fallback plan, as the specification words it
IsFallback(plan, query) ==
    /\ plan.shape = "array"
    /\ plan.tasks =
         << [task_type |-> "web_search", priority |-> <<1>>,
             input_source |-> Absent, search_queries |-> <<query>>],
            [task_type |-> "summarize", priority |-> <<2>>,
             input_source |-> "search_results", search_queries |-> <<>>],
            [task_type |-> "generate_report", priority |-> <<3>>,
             input_source |-> "summary", search_queries |-> <<>>] >>

\* C5: when the planning model raises or returns text json.loads rejects,
\* the plan of the run is the three-task fallback (retrieve with the
\* original query at priority 1, condense search_results at 2, write the
\* report from summary at 3), and no error of the plan reaches the caller.
C5_UnparseableGivesFallback ==
    \A r \in DOMAIN run :
        run[r].response.kind \in {"raise", "text"}
        => /\ IsFallback(run[r].plan, run[r].query)
           /\ "error" \notin DOMAIN run[r].results
           /\ (run[r].pc = "done" /\ HasTask(active_tasks, run[r].task_id))
                  => run[r].ret.status = "completed"

\* a run whose planner answer was unparseable ran the fallback to its report
C5_Witness ==
    \E r \in DOMAIN run :
        /\ run[r].response.kind = "text"
        /\ run[r].pc = "done"
        /\ run[r].ret.status = "completed"
        /\ "report" \in DOMAIN run[r].ret.results
        /\ run[r].ret.results["report"] # <<>>

\* C6: when the planner's answer is JSON of another shape than an array of
\* task descriptors (an object, a scalar, a string, an array of other
\* values), the run uses the fallback plan.
C6_FallbackOnOtherJson ==
    \A r \in DOMAIN run :
        (run[r].response.kind = "json" /\ run[r].response.value.shape # "array")
        => IsFallback(run[r].plan, run[r].query)

\* C7: a run whose plan execution raised is failed: handle_research_request
\* returns status error, and the run is recorded failed, never completed.
C7_FaultFailsTheRun ==
    \A r \in DOMAIN run :
        ("error" \in DOMAIN run[r].results /\ run[r].pc = "done")
        => /\ run[r].ret.status = "error"
           /\ \A i \in 1..Len(active_tasks) :
                 active_tasks[i].task_id = run[r].task_id
                     => active_tasks[i].status = "failed"

\* C8: handle_research_request never raises; what it returns carries a run
\* id, a status and either results or an error.
C8_NeverRaises ==
    \A r \in DOMAIN run :
        /\ run[r].pc # "raised"
        /\ run[r].pc = "done"
           => \/ /\ DOMAIN run[r].ret = {"task_id", "status", "results"}
                 /\ run[r].ret.status = "completed"
              \/ /\ DOMAIN run[r].ret = {"task_id", "status", "error"}
                 /\ run[r].ret.status = "error"

\* the planner raised, a worker answered with an error, the run's entry was
\* dropped under it, and the call still returned an outcome
C8_Witness ==
    \E r \in DOMAIN run :
        /\ run[r].pc = "done"
        /\ run[r].ret.status = "error"
        /\ run[r].response.kind = "raise"
        /\ \E i \in 1..Len(log[r]) :
              log[r][i].kind = "reply" /\ log[r][i].text = "error"

\* C9: the status of a run is in_progress, completed or failed; it only
\* moves from in_progress to completed or failed and then stays; once it is
\* completed or failed, or the call has returned, the run is not resumed and
\* nothing more is dispatched for it.
C9_Step ==
    /\ \A i \in 1..Len(active_tasks') :
          LET new == active_tasks'[i]
          IN  /\ new.status \in {"in_progress", "completed", "failed"}
              /\ HasTask(active_tasks, new.task_id)
                 => LET old == active_tasks[TaskIndex(active_tasks, new.task_id)]
                    IN  old.status = new.status \/ old.status = "in_progress"
    /\ \A r \in DOMAIN run :
          ( \/ run[r].pc = "done"
            \/ \E i \in 1..Len(active_tasks) :
                  /\ active_tasks[i].task_id = run[r].task_id
                  /\ active_tasks[i].status \in {"completed", "failed"} )
          => log'[r] = log[r] /\ run'[r] = run[r]

C9_TerminalIsFinal == [][C9_Step]_vars

\* a run that dispatched to a worker is recorded completed
C9_Witness ==
    \E r \in DOMAIN run :
        /\ run[r].pc = "done"
        /\ \E i \in 1..Len(active_tasks) :
              /\ active_tasks[i].task_id = run[r].task_id
              /\ active_tasks[i].status = "completed"
        /\ \E i \in 1..Len(log[r]) : log[r][i].kind = "summarize"

\* C10: the context of every summarize and generate_report request is the
\* query of the run whose task is being executed, also when several calls
\* are in flight.
C10_ContextIsOwnQuery ==
    \A r \in DOMAIN log : \A i \in 1..Len(log[r]) :
        log[r][i].kind \in {"summarize", "generate_report"}
            => log[r][i].context = run[r].query

\* the agent type a task type is delegated to
RoleOf(task_type) ==
    CASE task_type = WEB_SEARCH -> SEARCH
      [] task_type = SUMMARIZE -> SUMMARIZER
      [] task_type = GENERATE_REPORT -> REPORT_WRITER
      [] OTHER -> Absent

SendKinds == {"search", "summarize", "generate_report"}

Registered(agent_type) == \E i \in 1..Len(agents) : agents[i].type = agent_type

\* C11: when no agent of the type a task is delegated to is registered, no
\* message is sent for the task and its delegate returns the empty list or
\* the empty string; the call does not raise, every task of the plan is
\* still begun, and the run is returned completed.
C11_MissingRoleGivesEmpty ==
    \A r \in DOMAIN log : \A i \in 1..Len(log[r]) :
        LET e == log[r][i]
        IN  ( /\ e.kind = "task"
              /\ RoleOf(e.text) # Absent
              /\ ~Registered(RoleOf(e.text)) )
            => /\ \A j \in 1..Len(log[r]) :
                     log[r][j].task = e.task
                     => /\ log[r][j].kind \notin SendKinds
                        /\ log[r][j].kind = "return" => log[r][j].data = <<>>
               /\ run[r].pc # "raised"
               /\ run[r].pc = "done"
                  => /\ Len(TasksBegun(r)) = Len(run[r].plan.tasks)
                     /\ HasTask(active_tasks, run[r].task_id)
                        => run[r].ret.status = "completed"

\* no summarizer is registered: the search task brought results, the
\* summarize task returned the empty string without a message, the report
\* task was still run and the run completed
C11_Witness ==
    \E r \in DOMAIN log :
        /\ ~Registered(SUMMARIZER)
        /\ Registered(REPORT_WRITER)
        /\ run[r].pc = "done"
        /\ run[r].ret.status = "completed"
        /\ Len(TasksBegun(r)) = 3
        /\ \E i \in 1..Len(log[r]) :
              IsReturn(log[r][i], "search_results") /\ log[r][i].data # <<>>
        /\ \E i \in 1..Len(log[r]) :
              IsReturn(log[r][i], "summary") /\ log[r][i].data = <<>>
        /\ \E i \in 1..Len(log[r]) : IsReturn(log[r][i], "report")

\* C12: register_agent with an id the registry does not hold returns True
\* and list_agents then shows the former entries and exactly one new one,
\* with the registered type and status active; unregister_agent of an id
\* the registry holds returns True and removes exactly that entry;
\* unregister_agent of an id it does not hold (a second unregister) returns
\* False and leaves the registry as it was.
C12_Step ==
    /\ \A a \in BusAgents :
          (RegisterAgent(a) /\ ~HasAgent(a.id))
          => /\ returned'.ret = "True"
             /\ list_agents' = Append(list_agents,
                    [id |-> a.id, type |-> a.type, status |-> "active"])
    /\ \A agent_id \in BusIds :
          UnregisterAgent(agent_id)
          => IF HasAgent(agent_id)
             THEN /\ returned'.ret = "True"
                  /\ Len(list_agents') = Len(list_agents) - 1
                  /\ list_agents' =
                        SelectSeq(list_agents, LAMBDA e : e.id # agent_id)
             ELSE /\ returned'.ret = "False"
                  /\ agents' = agents

C12_RegisterListUnregister == [][C12_Step]_vars

\* an id was unregistered a second time, answered False, with the agents
\* registered after it still listed
C12_Witness ==
    /\ returned.op = "unregister_agent"
    /\ returned.ret = "False"
    /\ Len(agents) = 2
    /\ ~HasAgent("b1")
    /\ call.op = "send_message" /\ call.agent_id = "b1"
    /\ call.response = Envelope("result", "handled")

\* C13: send_message to an id the registry does not hold returns at once
\* the envelope {'error': 'Agent ... not found'}; it does not raise, calls
\* no handler and leaves the registry and the sessions as they were.
C13_Step ==
    \A agent_id \in BusIds :
        (SendMessage(agent_id) /\ ~HasAgent(agent_id))
        => /\ call'.pc = "done"
           /\ call'.result = "response"
           /\ call'.response = Envelope("error", "Agent not found")
           /\ call'.delivered = <<>>
           /\ agents' = agents
           /\ active_sessions' = active_sessions

C13_SendToUnknown == [][C13_Step]_vars

\* a message to an id that is not among the two registered ones was
\* answered with the error envelope
C13_Witness ==
    /\ call.op = "send_message"
    /\ call.pc = "done"
    /\ call.response.kind = "error"
    /\ call.delivered = <<>>
    /\ ~HasAgent(call.agent_id)
    /\ Len(agents) = 2
    /\ returned.op = "register_agent"

\* the ids of a list of records, in order
IdsOf(records) == [i \in 1..Len(records) |-> records[i].id]

\* C14: a broadcast_message under which the registry is not changed
\* returns a dict with exactly one response for every registered agent
\* that is not excluded and none for an excluded one; the handler of every
\* such agent that has one was called once, also after the handler of an
\* earlier agent raised or returned an error, and the response of an agent
\* whose handler raised, or that has no handler, is an error envelope.
C14_Step ==
    ( /\ HandlerReturns \/ \E ex \in ExcludeMenu : BroadcastMessage(ex)
      /\ call'.op = "broadcast_message"
      /\ call'.pc = "done"
      /\ ~call'.changed )
    => LET targets  == SelectSeq(agents,
                           LAMBDA a : a.id \notin call'.exclude_agents)
           handlers == SelectSeq(targets, LAMBDA a : a.instance.handle_message)
       IN  /\ call'.result = "responses"
           /\ IdsOf(call'.responses) = IdsOf(targets)
           /\ call'.delivered = IdsOf(handlers)
           /\ \A i \in 1..Len(targets) :
                 /\ call'.responses[i].response.kind \in {"result", "error"}
                 /\ ~targets[i].instance.handle_message
                    => call'.responses[i].response.kind = "error"

C14_BroadcastReachesAll == [][C14_Step]_vars

\* three agents were registered and none excluded: the handler of the
\* first raised, the second was still called and answered, the third has
\* no handler
C14_Witness ==
    /\ call.op = "broadcast_message"
    /\ call.pc = "done"
    /\ ~call.changed
    /\ call.exclude_agents = {}
    /\ Len(call.responses) = 3
    /\ call.responses[1].response = Envelope("error", "handler raised")
    /\ call.responses[2].response.kind = "result"
    /\ call.responses[3].response.kind = "error"
    /\ Len(call.delivered) = 2

\* C15: broadcast_to_session(s, ...) with s among the sessions of the bus
\* hands the message to sio.emit for s and for no other session, and
\* returns True when sio.emit returns; with s not among them (never added,
\* or removed) it emits nothing and returns False.  It never raises.
C15_Step ==
    /\ \A s \in BusSessions :
          BroadcastToSession(s)
          => IF s \in active_sessions
             THEN call'.pc = "emit" /\ call'.delivered = <<s>>
             ELSE /\ call'.pc = "done"
                  /\ call'.result = "False"
                  /\ call'.delivered = <<>>
    /\ EmitReturns
       => /\ call'.pc = "done"
          /\ call'.delivered = <<call.session_id>>
          /\ call'.response = NoEnvelope => call'.result = "True"
          /\ call'.result \in {"True", "False"}

C15_SessionBroadcast == [][C15_Step]_vars

\* two sessions are known; the notification for s1 was emitted to s1 only
\* and True returned
C15_Witness ==
    /\ call.op = "broadcast_to_session"
    /\ call.pc = "done"
    /\ call.session_id = "s1"
    /\ call.result = "True"
    /\ call.delivered = <<"s1">>
    /\ active_sessions = {"s1", "s2"}

\* a notification for a session that is not known (another one is) was
\* answered False
C15_WitnessUnknown ==
    /\ call.op = "broadcast_to_session"
    /\ call.result = "False"
    /\ call.delivered = <<>>
    /\ call.session_id \notin active_sessions
    /\ active_sessions # {}
    /\ returned.op = "remove_session"

\* C16: a stop under which the registry is not changed awaits the shutdown
\* of every registered agent that has one, once each and also after the
\* shutdown of an earlier agent raised, and does not raise; whenever stop
\* returns, self.agents and self.active_sessions are empty; a stop that
\* finds both empty calls nothing and leaves them empty.
C16_Step ==
    ( /\ Stop \/ ShutdownReturns
      /\ call'.op = "stop"
      /\ call'.pc \in {"done", "raised"} )
    => /\ call'.pc = "done"
          => /\ agents' = <<>>
             /\ active_sessions' = {}
       /\ ~call'.changed
          => /\ call'.pc = "done"
             /\ call'.delivered =
                   IdsOf(SelectSeq(agents, LAMBDA a : a.instance.shutdown))
       /\ (Stop /\ agents = <<>> /\ active_sessions = {})
          => call'.pc = "done" /\ call'.delivered = <<>>

C16_StopShutsDownAndClears == [][C16_Step]_vars

\* three agents and a session were registered: the shutdown of the first
\* raised, the second has none, the third was still shut down, and stop
\* left registry and sessions empty
C16_Witness ==
    /\ call.op = "stop"
    /\ call.pc = "done"
    /\ ~call.changed
    /\ call.size = 3
    /\ call.delivered = <<"b1", "b3">>
    /\ call.responses[1].response = Envelope("error", "handler raised")
    /\ agents = <<>>
    /\ active_sessions = {}

\* C17: no two stored documents have the same content, whatever was added,
\* removed and cleared; add_document with a content that is stored, under
\* any id and metadata, leaves the store (documents and vectors) as it was.
C17_Step ==
    /\ \A i, j \in 1..Len(vector_store'.documents) :
          vector_store'.documents[i].content = vector_store'.documents[j].content
              => i = j
    /\ ( /\ returned'.op = "add_document"
          /\ \E i \in 1..Len(vector_store.documents) :
                vector_store.documents[i].content = returned'.args.content )
       => vector_store' = vector_store

C17_NoDuplicateContent == [][C17_Step]_vars

\* 'apple' is stored under id a; it was added again under id b with other
\* metadata, and the store still holds the one document
C17_Witness ==
    /\ returned.op = "add_document"
    /\ returned.args.doc_id = "b"
    /\ returned.args.content = "apple"
    /\ Len(vector_store.documents) = 1
    /\ vector_store.documents[1].id = "a"
    /\ vector_store.documents[1].content = "apple"
    /\ vector_store.documents[1].metadata # returned.args.metadata

\* C18: remove_document with an id no stored document has returns False and
\* leaves documents, embeddings and the number of documents as they were.
C18_Step ==
    ( /\ returned'.op = "remove_document"
      /\ \A i \in 1..Len(vector_store.documents) :
            vector_store.documents[i].id # returned'.args.doc_id )
    => /\ returned'.ret = "False"
       /\ vector_store'.documents = vector_store.documents
       /\ vector_store'.embeddings = vector_store.embeddings
       /\ Len(vector_store'.documents) = Len(vector_store.documents)

C18_RemoveUnknownIsNoOp == [][C18_Step]_vars

\* two documents with their vectors are stored under id a, and a removal
\* (of id b) was answered False
C18_Witness ==
    /\ returned.op = "remove_document"
    /\ returned.args.doc_id = "b"
    /\ returned.ret = "False"
    /\ Len(vector_store.documents) = 2
    /\ Len(vector_store.embeddings) = 2
    /\ \A i \in 1..2 : vector_store.documents[i].id = "a"

\* C19: search on a store without documents returns []; otherwise, for
\* every top_k >= 0 and whatever the similarities are, it returns at most
\* top_k results, each for another stored document, the greater similarity
\* first.
C19_SearchTopK ==
    returned.op = "search"
    => LET results == returned.listing
       IN  /\ vector_store.documents = <<>> => results = <<>>
           /\ Len(results) <= returned.args.top_k
           /\ \A i, j \in 1..Len(results) :
                 i < j => /\ results[i].similarity >= results[j].similarity
                          /\ results[i].content # results[j].content
           /\ \A i \in 1..Len(results) :
                 \E k \in 1..Len(vector_store.documents) :
                    /\ vector_store.documents[k].content = results[i].content
                    /\ vector_store.documents[k].id = results[i].id

\* three documents are stored and a search with top_k = 2 returned two, a
\* document added later before one added earlier
C19_Witness ==
    /\ returned.op = "search"
    /\ returned.args.top_k = 2
    /\ Len(vector_store.documents) = 3
    /\ Len(returned.listing) = 2
    /\ returned.listing[1].similarity > returned.listing[2].similarity
    /\ returned.listing[1].content = vector_store.documents[3].content
    /\ returned.listing[2].content = vector_store.documents[1].content

\* C20: when every awaited call (planning model, bus send, notification)
\* returns, a call of handle_research_request that has begun returns in the
\* end, with the status completed or error.
C20_EveryCallReturns ==
    \A r \in RunIds :
        (r \in DOMAIN run /\ run[r].pc # "idle")
        ~> ( /\ r \in DOMAIN run
             /\ run[r].pc = "done"
             /\ run[r].ret.status \in {"completed", "error"} )

\* a call has returned completed after it was answered by the search, the
\* summarizer and the report writer agent
C20_Witness ==
    /\ run["r1"].pc = "done"
    /\ run["r1"].ret.status = "completed"
    /\ \A method \in {"search", "summarize", "generate_report"} :
          \E i, j \in 1..Len(log["r1"]) :
             /\ i < j
             /\ log["r1"][i].kind = method
             /\ log["r1"][j].kind = "reply"
             /\ log["r1"][j].task = log["r1"][i].task

\* C21: every search request sent for a web_search task with N >= 1
\* sub-queries carries max_results = ceil(MAX_SEARCH_RESULTS / N), that is
\* the least m with m * N >= MAX_SEARCH_RESULTS, the same for every sub-query
\* of the task.
C21_PerQueryIsCeiling ==
    \A r \in DOMAIN log : \A i \in 1..Len(log[r]) :
        LET e == log[r][i]
            N == Len(QueriesOf(r, e.task))
        IN  e.kind = "search"
            => /\ N >= 1
               /\ e.max_results * N >= MAX_SEARCH_RESULTS
               /\ (e.max_results - 1) * N < MAX_SEARCH_RESULTS
               /\ \A j \in 1..Len(log[r]) :
                     (log[r][j].kind = "search" /\ log[r][j].task = e.task)
                         => log[r][j].max_results = e.max_results

\* the three sub-queries of a task were each sent with max_results = 4
C21_Witness ==
    \E r \in DOMAIN log :
        \E t \in 1..Len(run[r].plan.tasks) :
            /\ Len(QueriesOf(r, t)) = 3
            /\ Len(SearchSends(r, t)) = 3
            /\ \A j \in 1..3 : SearchSends(r, t)[j].max_results = 4

\* C22: a call of handle_research_request whose session is connected to the
\* bus has, once its task id is made and before the planning model is asked,
\* sent the notification "Creating a custom research plan..." to its session.
C22_PlanNotificationSent ==
    \A r \in DOMAIN run :
        (run[r].pc # "idle" /\ run[r].session_id \in active_sessions)
        => \E i \in 1..Len(log[r]) :
              /\ log[r][i].kind = "notify"
              /\ log[r][i].to = run[r].session_id
              /\ log[r][i].text = "Creating a custom research plan..."
              /\ \A j \in 1..(i - 1) : log[r][j].kind # "task"

\* C23: the notification of a task names the task, goes to the session of
\* the run and to no other, and comes before anything is sent for the task;
\* a run that is recorded and whose session is connected notifies every
\* task it begins; and whether or not a notification is sent or delivered,
\* every task begun is carried out: only the task whose notification is
\* still awaited, and a task of a type the executor skips, has neither a
\* request nor a result after it.
KnownTypes == {WEB_SEARCH, SUMMARIZE, GENERATE_REPORT}

C23_NotifyBeforeDispatch ==
    \A r \in DOMAIN log : \A i \in 1..Len(log[r]) :
        LET e == log[r][i]
        IN  /\ (e.kind = "notify" /\ e.task # 0)
               => /\ e.to = run[r].session_id
                  /\ e.text = run[r].plan.tasks[e.task].task_type
                  /\ i > 1
                  /\ log[r][i - 1].kind = "task"
                  /\ log[r][i - 1].task = e.task
            /\ e.kind = "task"
               => /\ ( /\ run[r].session_id \in active_sessions
                       /\ HasTask(active_tasks, run[r].task_id) )
                     => /\ i < Len(log[r])
                        /\ log[r][i + 1].kind = "notify"
                        /\ log[r][i + 1].task = e.task
                  /\ \/ e.text \notin KnownTypes
                     \/ /\ run[r].pc = "notify_wait"
                        /\ \A j \in (i + 1)..Len(log[r]) : log[r][j].kind = "notify"
                     \/ \E j \in (i + 1)..Len(log[r]) :
                           /\ log[r][j].task = e.task
                           /\ log[r][j].kind \in SendKinds \cup {"return"}

\* a run has returned completed with the results of its three tasks, each
\* task notified to the run's session before its request was sent
C23_Witness ==
    \E r \in DOMAIN log :
        /\ run[r].pc = "done"
        /\ run[r].ret.status = "completed"
        /\ run[r].session_id \in active_sessions
        /\ Len(TasksBegun(r)) = 3
        /\ \A i \in 1..Len(log[r]) :
              log[r][i].kind = "task"
                  => /\ log[r][i + 1].kind = "notify"
                     /\ log[r][i + 1].to = run[r].session_id
                     /\ log[r][i + 2].kind \in SendKinds
                     /\ log[r][i + 2].task = log[r][i].task

\* C24: when the search task of a run has returned no result and a
\* summarize task that reads search_results is begun next, with the
\* summarizer registered, a summarize request whose data is the empty list
\* is sent to the summarizer, and the run goes on to its remaining tasks.
C24_EmptyListIsSummarized ==
    \A r \in DOMAIN log : \A i, k \in 1..Len(log[r]) :
        LET found == log[r][i]
            begun == log[r][k]
            task  == run[r].plan.tasks[begun.task]
        IN  ( /\ IsReturn(found, "search_results")
              /\ found.data = <<>>
              /\ i < k
              /\ begun.kind = "task"
              /\ begun.text = SUMMARIZE
              /\ task.input_source \in {Absent, "search_results"}
              /\ \A j \in (i + 1)..(k - 1) : ~IsReturn(log[r][j], "search_results")
              /\ Registered(SUMMARIZER)
              /\ run[r].pc = "done" )
            => \E j \in (k + 1)..Len(log[r]) :
                  /\ log[r][j].kind = "summarize"
                  /\ log[r][j].task = begun.task
                  /\ log[r][j].data = <<>>

\* the slot a task of a type writes, and the slot it reads when its dict
\* names no input_source
SlotOf(task_type) ==
    CASE task_type = WEB_SEARCH -> "search_results"
      [] task_type = SUMMARIZE -> "summary"
      [] task_type = GENERATE_REPORT -> "report"
      [] OTHER -> Absent

DefaultSourceOf(task_type) ==
    IF task_type = SUMMARIZE THEN "search_results" ELSE "summary"

\* C25 (a): a result is stored under the slot of the type of its task
C25_OwnSlotOnly ==
    \A r \in DOMAIN log : \A i \in 1..Len(log[r]) :
        log[r][i].kind = "return"
            => log[r][i].text = SlotOf(run[r].plan.tasks[log[r][i].task].task_type)

\* C25 (b): the data of a summarize or generate_report request is what the
\* run stored last, before the request, under the slot the task's
\* input_source names
C25_DataIsSourceSlot ==
    \A r \in DOMAIN log : \A j \in 1..Len(log[r]) :
        LET e      == log[r][j]
            task   == run[r].plan.tasks[e.task]
            source == IF task.input_source = Absent
                      THEN DefaultSourceOf(task.task_type)
                      ELSE task.input_source
        IN  e.kind \in {"summarize", "generate_report"}
            => \E i \in 1..(j - 1) :
                  /\ IsReturn(log[r][i], source)
                  /\ log[r][i].data = e.data
                  /\ \A k \in (i + 1)..(j - 1) : ~IsReturn(log[r][k], source)

\* C25 (c): what a call that returns completed returns holds the slots of
\* the tasks that were executed, and no other
C25_ExactlyExecutedSlots ==
    \A r \in DOMAIN run :
        (run[r].pc = "done" /\ run[r].ret.status = "completed")
        => DOMAIN run[r].ret.results =
              {SlotOf(log[r][i].text) : i \in {k \in 1..Len(log[r]) :
                                                /\ log[r][k].kind = "task"
                                                /\ log[r][k].text \in KnownTypes}}

\* C25: within a run each task writes the slot of its type only, the data
\* of a summarize or generate_report request is the content of the slot its
\* input_source names, and a completed run returns exactly the slots of the
\* tasks that were executed.
C25_SlotsOfTheRun ==
    /\ C25_OwnSlotOnly
    /\ C25_DataIsSourceSlot
    /\ C25_ExactlyExecutedSlots

\* C26: send_message to a registered agent calls the agent's handle_message
\* once and returns what the handler returned; when the handler raises, or
\* the agent has no handle_message, it returns an error envelope and does
\* not raise; the handler is not called a second time, and the registry is
\* left as it was.
C26_Step ==
    /\ \A agent_id \in BusIds :
          (SendMessage(agent_id) /\ HasAgent(agent_id))
          => /\ agents' = agents
             /\ IF agents[AgentIndex(agent_id)].instance.handle_message
                THEN /\ call'.pc = "handle_message"
                     /\ call'.delivered = <<agent_id>>
                ELSE /\ call'.pc = "done"
                     /\ call'.result = "response"
                     /\ call'.response.kind = "error"
                     /\ call'.delivered = <<>>
    /\ (HandlerReturns /\ call.op = "send_message")
       => /\ agents' = agents
          /\ call'.pc = "done"
          /\ call'.result = "response"
          /\ call'.delivered = <<call.agent_id>>
          /\ call'.response \in {Envelope("result", "handled"),
                                 Envelope("error", "handler error"),
                                 Envelope("error", "handler raised")}

C26_SendInvokesOnce == [][C26_Step]_vars

\* the handler of a registered agent was called once, it raised, and
\* send_message returned an error envelope
C26_Witness ==
    /\ call.op = "send_message"
    /\ call.pc = "done"
    /\ call.result = "response"
    /\ call.delivered = <<call.agent_id>>
    /\ call.response = Envelope("error", "handler raised")
    /\ HasAgent(call.agent_id)

\* the hashes of the documents stored, in insertion order
StoredCorpus(vs) == [i \in 1..Len(vs.documents) |-> vs.documents[i].hash]

\* C27: at every search on a store that holds documents, the documents that
\* are scored are the stored ones, each with a vector of a fit over the
\* corpus as it is now (no vector older than the last insertion or
\* removal), and no document that is not stored is returned.
C27_SearchScoresTheCurrentCorpus ==
    (returned.op = "search" /\ vector_store.documents # <<>>)
    => /\ vector_store.vectorizer.fitted
       /\ vector_store.vectorizer.corpus = StoredCorpus(vector_store)
       /\ \A i \in 1..Len(vector_store.documents) :
             \E j \in 1..Len(vector_store.embeddings) :
                /\ vector_store.embeddings[j].hash = vector_store.documents[i].hash
                /\ vector_store.embeddings[j].fit = StoredCorpus(vector_store)
       /\ \A k \in 1..Len(returned.listing) :
             \E i \in 1..Len(vector_store.documents) :
                /\ vector_store.documents[i].id = returned.listing[k].id
                /\ vector_store.documents[i].content = returned.listing[k].content

\* C28: when agents are registered or unregistered while broadcast_message
\* or stop is suspended in the handler of one agent, the call still comes
\* to its end without an exception: broadcast_message returns the mapping
\* of the responses (not the envelope of an exception), and stop is not
\* left by an exception before it has emptied the registry and the
\* sessions.
C28_CompletesUnderChange ==
    /\ (call.op = "broadcast_message" /\ call.pc = "done")
       => call.result = "responses"
    /\ call.op = "stop" => call.pc # "raised"

\* the replies to the sub-queries of task t that call r had received when
\* its trace was n events long, and their result lists put end to end
SearchReplies(r, t, n) ==
    SelectSeq(SubSeq(log[r], 1, n), LAMBDA e : e.kind = "reply" /\ e.task = t)

RECURSIVE EndToEnd(_)
EndToEnd(replies) ==
    IF replies = <<>> THEN <<>>
    ELSE EndToEnd(SubSeq(replies, 1, Len(replies) - 1))
             \o replies[Len(replies)].data

\* C29: the list _delegate_search_task returns is a prefix of the result
\* lists of the sub-queries it sent, put end to end in the order of sending
\* (the order is kept and only the tail is cut), and after a response that
\* is an error or carries no result the next sub-query is sent with the
\* accumulated list as it was.
C29_PrefixOfDispatched ==
    \A r \in DOMAIN log : \A i \in 1..Len(log[r]) :
        LET e == log[r][i]
        IN  /\ IsReturn(e, "search_results")
               => e.data = Take(EndToEnd(SearchReplies(r, e.task, i)), Len(e.data))
            /\ (/\ e.kind = "reply"
                /\ i > 1 /\ log[r][i - 1].kind = "search"
                /\ e.text = "error" \/ (e.text = "result" /\ e.data = <<>>)
                /\ Cardinality({j \in 1..i : /\ log[r][j].kind = "search"
                                             /\ log[r][j].task = e.task})
                      < Len(QueriesOf(r, e.task)))
               => /\ i < Len(log[r])
                  /\ log[r][i + 1].kind = "search"
                  /\ log[r][i + 1].task = e.task
                  /\ log[r][i + 1].acc = log[r][i - 1].acc

\* a retrieval task whose first sub-query came back with an error, whose
\* later sub-queries gave results, and whose list was cut at the tail
C29_Witness ==
    \E r \in DOMAIN log : \E i \in 1..Len(log[r]) :
        LET e       == log[r][i]
            replies == SearchReplies(r, e.task, i)
        IN  /\ IsReturn(e, "search_results")
            /\ Len(replies) >= 3
            /\ replies[1].text = "error"
            /\ e.data # <<>>
            /\ Len(e.data) < Len(EndToEnd(replies))
            /\ e.data[1].q # e.data[Len(e.data)].q

\* C30: remove_document(doc_id) returns True exactly when a stored document
\* has the id; it then removes one document, the one inserted first among
\* those with the id, and leaves every other document stored, also other
\* documents with the same id; when no stored document has the id (as for
\* the id of an insertion that was skipped for its content being stored
\* under another id) it returns False and removes nothing.
C30_Step ==
    returned'.op = "remove_document"
    => LET documents == vector_store.documents
           hits == {i \in 1..Len(documents) :
                       documents[i].id = returned'.args.doc_id}
       IN  IF hits = {}
           THEN /\ returned'.ret = "False"
                /\ vector_store'.documents = documents
           ELSE /\ returned'.ret = "True"
                /\ \E first \in hits :
                      /\ \A j \in hits : first <= j
                      /\ vector_store'.documents =
                             SubSeq(documents, 1, first - 1)
                                 \o SubSeq(documents, first + 1, Len(documents))

C30_RemovesEarliestOnly == [][C30_Step]_vars

\* a removal returned True and left a later document with the same id, and
\* a document with another id stored before it, in the store
C30_Witness ==
    /\ returned.op = "remove_document"
    /\ returned.ret = "True"
    /\ Len(vector_store.documents) = 2
    /\ vector_store.documents[1].id # returned.args.doc_id
    /\ vector_store.documents[2].id = returned.args.doc_id

====
